---- MODULE Spec2Model ----
(***************************************************************************)
(* pyrel: the context-scoped relation lifecycle of src/pyrel/pyrel.py.     *)
(*                                                                         *)
(* A PyrelContext owns one Kure manager, a reference counter and a dict    *)
(* reference number -> Kure relation handle.  A Relation is a Python       *)
(* object holding its context, its reference number, its handle and the   *)
(* dimensions it read from the engine when it was constructed.            *)
(*                                                                         *)
(* The Kure library itself is outside the repository (kure.py only        *)
(* declares its entry points).  The model keeps, per handle, whether it   *)
(* is alive or destroyed, its owning manager, its dimensions, its bits    *)
(* and how often it was handed to kure_rel_destroy, and records the       *)
(* engine calls of the most recent operation in `calls`.                  *)
(***************************************************************************)
EXTENDS Integers, Sequences, FiniteSets, TLC

\* Total number of engine relation handles ever allocated in a run.
MaxHandles == 3
\* Number of handles allocated in a run of SpecBits or SpecWrite, whose
\* relations also differ in their bits.
MaxBitHandles == 2
\* The PyrelContext objects of a run.
Ctx == {1, 2}
\* The NULL pointer / Python None where a handle or a manager is expected.
NULL == 0

VARIABLES
    context,    \* PyrelContext._context: "ptr" (the manager) or "None"
    ref,        \* PyrelContext.ref
    relations,  \* PyrelContext.relations: reference number -> handle
    objs,       \* the Relation objects alive in the interpreter
    kure,       \* engine side: the relation handles allocated so far
    manager,    \* engine side: is the manager of each context allocated
    calls,      \* engine calls made by the most recent operation, in order
    op          \* the most recent operation and how it ended

vars == <<context, ref, relations, objs, kure, manager, calls, op>>

----------------------------------------------------------------------------
(* Values *)

\* A rows/cols argument of PyrelContext.new: a Python value with its type.
DimArgs ==
    {[type |-> "int", val |-> v] : v \in {-1, 0, 1}} \cup {[type |-> "float", val |-> 1]}

\* The count 1.
OneRow == [type |-> "int", val |-> 1]

\* The non-negative integer counts among them.
CountArgs == {d \in DimArgs : d.type = "int" /\ d.val >= 0}

\* One engine call: the entry point, the manager argument, the handle arguments.
Call(fn, mgr, rels) == [fn |-> fn, mgr |-> mgr, rels |-> rels]

\* Exceptions (PyrelException messages; KureError stands for _kure_error).
InvalidDimension == "Invalid dimension."
InvalidBitPair == "Invalid (row, col) bit pair."
InvalidArgument == "Invalid argument. Prob must be a float between 0.0 and 1.0."
InvalidVector == "Invalid vector arg. Must be int."
TypeMismatch == "argument type must be relation"
KureError == "KureError"

\* What _kure_error() ends in: the engine's error, or the failed read of it.
EngineRaised == {KureError, "AttributeError"}

\* The record of the most recent operation: its name, the Python type of the
\* `other` argument of a binary operation ("" for the rest), the exception
\* it raised ("none" when it returned), the boolean a comparison returned
\* ("None" for the rest), whether an engine call of the operation reported
\* failure, and the receiver and arguments of a set_bits, vector or
\* vector_next (<<>> for the rest).
NoOp ==
    [name |-> "init", other |-> "", raised |-> "none", returned |-> "None",
     failed |-> FALSE, args |-> <<>>]
Op(name, raised) ==
    [name |-> name, other |-> "", raised |-> raised, returned |-> "None",
     failed |-> raised \in EngineRaised, args |-> <<>>]
BinaryOp(name, other, raised) ==
    [name |-> name, other |-> other.type, raised |-> raised, returned |-> "None",
     failed |-> raised \in EngineRaised, args |-> <<>>]

\* A Python bool as the record shows it.
Bool(b) == IF b THEN "True" ELSE "False"

\* The record of a comparison that returned the boolean b.
Returned(name, other, b) ==
    [name |-> name, other |-> other.type, raised |-> "none", returned |-> Bool(b),
     failed |-> FALSE, args |-> <<>>]

EmptyMap == [x \in {} |-> 0]
Range(f) == {f[x] : x \in DOMAIN f}

----------------------------------------------------------------------------
(* The engine, as far as the lifecycle depends on it *)

\* The next handle the engine allocates.
NewHandle == Cardinality(DOMAIN kure) + 1

CanAllocate == NewHandle <= MaxHandles

CanAllocateBits == NewHandle <= MaxBitHandles

\* The coordinates of a rows-by-cols relation.
Cells(rows, cols) == (0..(rows - 1)) \X (0..(cols - 1))

\* kure_rel_new_with_size_si / kure_rel_new_copy: a fresh live handle; a new
\* relation has no bit set.
KureAlloc(k, h, c, rows, cols) ==
    k @@ (h :> [alive |-> TRUE, context |-> c, rows |-> rows, cols |-> cols,
                destroys |-> 0, bits |-> {}])

\* kure_rel_destroy: the handle is freed (its storage with it); the count of
\* destroy calls grows.
KureDestroy(k, h) ==
    [k EXCEPT ![h] = [@ EXCEPT !.alive = FALSE, !.destroys = @ + 1, !.bits = {}]]

RECURSIVE KureDestroyAll(_, _)
KureDestroyAll(k, hs) ==
    IF hs = <<>> THEN k ELSE KureDestroyAll(KureDestroy(k, Head(hs)), Tail(hs))

\* A handle the engine may legitimately dereference: allocated, not freed,
\* and its manager not released.
Usable(k, h) == h \in DOMAIN k /\ k[h].alive /\ manager[k[h].context]

SameDim(k, a, b) == k[a].rows = k[b].rows /\ k[a].cols = k[b].cols

\* The success values an engine call on the handles `rels` may return.  A call
\* on a freed handle, or on handles of two managers, is undefined in the
\* engine: either value.  Otherwise the call succeeds exactly when the
\* dimensions fit its operation.
KureSuccess(k, fn, rels) ==
    IF \E i \in DOMAIN rels : ~Usable(k, rels[i]) THEN BOOLEAN
    ELSE IF \E i, j \in DOMAIN rels : k[rels[i]].context # k[rels[j]].context
    THEN BOOLEAN
    ELSE IF fn \in {"kure_and", "kure_or"} THEN {SameDim(k, rels[2], rels[3])}
    ELSE IF fn = "kure_mult" THEN {k[rels[2]].cols = k[rels[3]].rows}
    ELSE IF fn \in {"kure_equals", "kure_includes"} THEN {SameDim(k, rels[1], rels[2])}
    ELSE {TRUE}

\* The boolean kure_equals(a, b) / kure_includes(a, b) answers: a and b hold
\* the same bits / every bit of a is a bit of b.  Undefined (either value) on
\* a freed handle or on handles of two managers.
KureResult(k, fn, rels) ==
    IF \E i \in DOMAIN rels : ~Usable(k, rels[i]) THEN BOOLEAN
    ELSE IF \E i, j \in DOMAIN rels : k[rels[i]].context # k[rels[j]].context
    THEN BOOLEAN
    ELSE IF fn = "kure_equals" THEN {k[rels[1]].bits = k[rels[2]].bits}
    ELSE {k[rels[1]].bits \subseteq k[rels[2]].bits}

\* kure_set_bit_si succeeds exactly on a coordinate inside the relation.
KureSetBitSuccess(k, h, row, col) ==
    IF ~Usable(k, h) THEN BOOLEAN
    ELSE {row >= 0 /\ row < k[h].rows /\ col >= 0 /\ col < k[h].cols}

\* kure_set_bit_si that succeeded: the bit is set or cleared.  (A call on a
\* freed handle is not followed into the storage it overwrites.)
KureSetBit(k, h, row, col, yesno) ==
    IF ~Usable(k, h) THEN k
    ELSE [k EXCEPT ![h].bits = IF yesno THEN @ \cup {<<row, col>>} ELSE @ \ {<<row, col>>}]

\* kure_rel_new_copy returns a handle, or NULL when it cannot duplicate.
KureCopySuccess(k, h) == BOOLEAN

\* kure_random_simple reports success or failure.
KureRandomSuccess(k, h) == BOOLEAN

\* kure_random_simple that succeeded: any choice of bits of the relation.
KureRandom(k, h) ==
    {[k EXCEPT ![h].bits = S] : S \in SUBSET Cells(k[h].rows, k[h].cols)}

\* The vector of position p: row p full.
Row(p, cols) == {p} \X (0..(cols - 1))

\* The position of the vector a handle holds (empty when its bits are no
\* vector).
Position(k, h) == {p \in 0..(k[h].rows - 1) : k[h].cols > 0 /\ k[h].bits = Row(p, k[h].cols)}

\* kure_vec_begin_full_si succeeds for a non-empty dimension.
KureVecBeginSuccess(k, h, rows, cols) ==
    IF ~Usable(k, h) THEN BOOLEAN ELSE {rows > 0 /\ cols > 0}

\* kure_vec_begin_full_si that succeeded: the handle holds the first vector of
\* the dimension, whatever it held before.
KureVecBegin(k, h, rows, cols) ==
    [k EXCEPT ![h] = [@ EXCEPT !.rows = rows, !.cols = cols, !.bits = Row(0, cols)]]

\* kure_vec_next(v, v) succeeds while a next vector exists; on bits that are
\* no vector its answer is not defined (either value).
KureVecNextSuccess(k, h) ==
    IF ~Usable(k, h) \/ Position(k, h) = {} THEN BOOLEAN
    ELSE {\E p \in Position(k, h) : p + 1 < k[h].rows}

\* kure_vec_next that succeeded: the handle holds the next vector.
KureVecNext(k, h) ==
    IF \E p \in Position(k, h) : p + 1 < k[h].rows
    THEN [k EXCEPT ![h].bits = Row((CHOOSE p \in Position(k, h) : TRUE) + 1, k[h].cols)]
    ELSE k

\* A ctypes.c_char result as Python sees it: a bytes object of length one.
c_char(success) == <<IF success THEN 1 ELSE 0>>

\* Python's `not` on a bytes object: true for the empty one only.
PyNot(bytes) == Len(bytes) = 0

\* kure_rel_new_copy that succeeded: handle h duplicates src.
KureCopy(k, h, src) ==
    [KureAlloc(k, h, k[src].context, k[src].rows, k[src].cols) EXCEPT
        ![h].bits = k[src].bits]

\* The relational product of two bit sets.
Mult(A, B) == {<<r[1][1], r[2][2]>> : r \in {x \in A \X B : x[1][2] = x[2][1]}}

\* The bits of the output handle after a successful producing call.
KureBits(k, fn, rels) ==
    LET rop == k[rels[1]] IN
    IF fn = "kure_O" THEN {}
    ELSE IF fn = "kure_L" THEN Cells(rop.rows, rop.cols)
    ELSE IF fn = "kure_I" THEN {p \in Cells(rop.rows, rop.cols) : p[1] = p[2]}
    ELSE IF fn = "kure_and" THEN k[rels[2]].bits \cap k[rels[3]].bits
    ELSE IF fn = "kure_or" THEN k[rels[2]].bits \cup k[rels[3]].bits
    ELSE IF fn = "kure_transpose" THEN {<<p[2], p[1]>> : p \in k[rels[2]].bits}
    ELSE IF fn = "kure_complement"
    THEN Cells(k[rels[2]].rows, k[rels[2]].cols) \ k[rels[2]].bits
    ELSE IF fn = "kure_mult" THEN Mult(k[rels[2]].bits, k[rels[3]].bits)
    ELSE rop.bits

\* The output handle after a successful producing call: its bits, and the
\* dimensions the operation gives it.
KureWrite(k, fn, rels) ==
    LET b == KureBits(k, fn, rels) IN
    IF fn = "kure_transpose"
    THEN [k EXCEPT ![rels[1]] = [@ EXCEPT !.rows = k[rels[2]].cols,
                                          !.cols = k[rels[2]].rows, !.bits = b]]
    ELSE IF fn = "kure_mult"
    THEN [k EXCEPT ![rels[1]] = [@ EXCEPT !.rows = k[rels[2]].rows,
                                          !.cols = k[rels[3]].cols, !.bits = b]]
    ELSE [k EXCEPT ![rels[1]].bits = b]

----------------------------------------------------------------------------
(* PyrelContext *)

Init ==
    /\ context = [c \in Ctx |-> "ptr"]
    /\ ref = [c \in Ctx |-> 0]
    /\ relations = [c \in Ctx |-> EmptyMap]
    /\ objs = EmptyMap
    /\ kure = EmptyMap
    /\ manager = [c \in Ctx |-> TRUE]
    /\ calls = <<>>
    /\ op = NoOp

\* A check that only rejects negative counts.
isValidDimensionNonNegative(rows, cols) ==
    /\ rows.type = "int"
    /\ cols.type = "int"
    /\ rows.val >= 0
    /\ cols.val >= 0

\* PyrelContext.new, lines 92-95
isValidDimension(rows, cols) ==
    /\ rows.type = "int"
    /\ cols.type = "int"
    /\ \/ rows.val = 0 /\ cols.val = 0
       \/ rows.val > 0 /\ cols.val > 0

\* Relation.__init__: the object reads its dimensions from the engine.
RelationInit(c, r, h, rows, cols, held) ==
    [context |-> c, ref |-> r, rel |-> h, rows |-> rows, cols |-> cols, held |-> held]

RelationInitCalls(h) ==
    <<Call("kure_rel_get_rows_si", NULL, <<h>>), Call("kure_rel_get_cols_si", NULL, <<h>>)>>

\* An _add that counts the handle and does not enter it into the mapping.
_addCounterOnly(c, h) ==
    /\ ref' = [ref EXCEPT ![c] = @ + 1]
    /\ relations' = relations

\* An _add that numbers the handle by the size of the mapping.
_addBySize(c, h) ==
    /\ ref' = [ref EXCEPT ![c] = Cardinality(DOMAIN relations[c]) + 1]
    /\ relations' = [relations EXCEPT ![c] =
                         [k \in DOMAIN @ \cup {Cardinality(DOMAIN @) + 1} |->
                             IF k = Cardinality(DOMAIN @) + 1 THEN h ELSE @[k]]]

\* PyrelContext._add: the next reference number maps to the handle.
_add(c, h) ==
    /\ ref' = [ref EXCEPT ![c] = @ + 1]
    /\ relations' = [relations EXCEPT ![c] = @ @@ ((ref[c] + 1) :> h)]

\* The engine calls of a successful PyrelContext.new.
NewCalls(c, h) ==
    <<Call("kure_rel_new_with_size_si", c, <<>>)>> \o RelationInitCalls(h)

\* PyrelContext.new(rows, cols).  The accepted branch is followed while the
\* manager pointer is set and the engine hands out a handle; minting through a
\* context whose _context is None is outside this model.
new(c, rows, cols) ==
    IF ~isValidDimension(rows, cols)
    THEN /\ op' = Op("new", InvalidDimension)
         /\ calls' = <<>>
         /\ UNCHANGED <<context, ref, relations, objs, kure, manager>>
    ELSE /\ context[c] = "ptr"
         /\ CanAllocate
         /\ LET h == NewHandle IN
            /\ kure' = KureAlloc(kure, h, c, rows.val, cols.val)
            /\ _add(c, h)
            /\ objs' = objs @@ (h :> RelationInit(c, ref[c] + 1, h, rows.val, cols.val, TRUE))
            /\ calls' = NewCalls(c, h)
            /\ op' = Op("new", "none")
         /\ UNCHANGED <<context, manager>>

\* What delete is called with: a Relation object or a bare reference number.
DeleteArgs ==
    {[type |-> "Relation", val |-> o] : o \in {x \in DOMAIN objs : objs[x].held}}
    \cup {[type |-> "int", val |-> n] : n \in 1..MaxHandles}

\* PyrelContext.delete, lines 123-125: the reference number looked up.
DeleteKey(toDelete) ==
    IF toDelete.type = "Relation" THEN objs[toDelete.val].ref ELSE toDelete.val

\* A delete that destroys the handle and leaves its entry in the mapping.
DeleteRelationsKeep(m, key) == m

\* A delete that drops every entry instead of the one it was asked for.
DeleteRelationsAll(m, key) ==
    IF key \in DOMAIN m THEN EmptyMap ELSE m

\* PyrelContext.delete, lines 126-128: the mapping after the call.
DeleteRelations(m, key) ==
    IF key \in DOMAIN m THEN [k \in DOMAIN m \ {key} |-> m[k]] ELSE m

\* PyrelContext.delete, lines 126-127: the engine calls of the call.
DeleteCalls(m, key) ==
    IF key \in DOMAIN m THEN <<Call("kure_rel_destroy", NULL, <<m[key]>>)>> ELSE <<>>

\* The handles of a sequence of kure_rel_destroy calls.
DestroyedBy(cs) == [i \in DOMAIN cs |-> cs[i].rels[1]]

\* PyrelContext.delete(toDelete)
delete(c, toDelete) ==
    LET key == DeleteKey(toDelete)
        cs == DeleteCalls(relations[c], key) IN
    /\ relations' = [relations EXCEPT ![c] = DeleteRelations(@, key)]
    /\ kure' = KureDestroyAll(kure, DestroyedBy(cs))
    /\ calls' = cs
    /\ op' = Op("delete", "none")
    /\ UNCHANGED <<context, ref, objs, manager>>

MaxOf(S) == CHOOSE x \in S : \A y \in S : y <= x

\* One turn of the loop of PyrelContext.clean: popitem removes the most
\* recently inserted entry (the largest reference number) and its handle goes
\* to kure_rel_destroy.
PopItem(st) ==
    LET k == MaxOf(DOMAIN st.relations) IN
    [relations |-> [x \in DOMAIN st.relations \ {k} |-> st.relations[x]],
     calls |-> Append(st.calls, Call("kure_rel_destroy", NULL, <<st.relations[k]>>))]

RECURSIVE WhileRelations(_)
WhileRelations(st) ==
    IF DOMAIN st.relations = {} THEN st ELSE WhileRelations(PopItem(st))

\* A clean that leaves the loop after its first turn.
CleanLoopOnce(m) ==
    IF DOMAIN m = {} THEN [relations |-> m, calls |-> <<>>]
    ELSE PopItem([relations |-> m, calls |-> <<>>])

\* PyrelContext.clean: the mapping and the engine calls when the loop ends.
CleanLoop(m) == WhileRelations([relations |-> m, calls |-> <<>>])

\* The handles of the kure_rel_destroy calls among `cs`.
RelDestroys(cs) == DestroyedBy(SelectSeq(cs, LAMBDA x : x.fn = "kure_rel_destroy"))

\* PyrelContext.clean()
clean(c) ==
    LET done == CleanLoop(relations[c]) IN
    /\ relations' = [relations EXCEPT ![c] = done.relations]
    /\ kure' = KureDestroyAll(kure, RelDestroys(done.calls))
    /\ calls' = done.calls
    /\ op' = Op("clean", "none")
    /\ UNCHANGED <<context, ref, objs, manager>>

\* PyrelContext.__del__, line 77: the manager pointer goes to kure_context_destroy.
ContextDestroyCalls(c) ==
    <<Call("kure_context_destroy", IF context[c] = "ptr" THEN c ELSE NULL, <<>>)>>

\* A teardown that releases the manager before it cleans.
TeardownCallsManagerFirst(c) ==
    ContextDestroyCalls(c) \o CleanLoop(relations[c]).calls

\* PyrelContext.__del__: the engine calls, in order: clean(), then the manager.
TeardownCalls(c) == CleanLoop(relations[c]).calls \o ContextDestroyCalls(c)

\* PyrelContext.__del__()
PyrelContext__del__(c) ==
    LET cs == TeardownCalls(c) IN
    /\ relations' = [relations EXCEPT ![c] = CleanLoop(@).relations]
    /\ kure' = KureDestroyAll(kure, RelDestroys(cs))
    /\ manager' = [manager EXCEPT ![c] = FALSE]
    /\ context' = [context EXCEPT ![c] = "None"]
    /\ calls' = cs
    /\ op' = Op("PyrelContext.__del__", "none")
    /\ UNCHANGED <<ref, objs>>

----------------------------------------------------------------------------
(* Relation *)

\* Relation.__del__: the interpreter drops the object; the object asks its
\* context to delete its reference number.
Relation__del__(o) ==
    LET c == objs[o].context
        key == objs[o].ref
        cs == DeleteCalls(relations[c], key) IN
    /\ relations' = [relations EXCEPT ![c] = DeleteRelations(@, key)]
    /\ kure' = KureDestroyAll(kure, DestroyedBy(cs))
    /\ objs' = [x \in DOMAIN objs \ {o} |-> objs[x]]
    /\ calls' = cs
    /\ op' = Op("Relation.__del__", "none")
    /\ UNCHANGED <<context, ref, manager>>

\* The Relation objects the caller still holds.
Held == {o \in DOMAIN objs : objs[o].held}

\* What a binary operation is called with: a Relation object, or something else.
OperandArgs ==
    {[type |-> "Relation", val |-> o] : o \in Held} \cup {[type |-> "int", val |-> 1]}

\* A type check that lets every argument through.
_is_relation_unchecked(arg) == TRUE

\* The `other` of an operation that takes none.
NoOther == [type |-> "", val |-> 0]

\* Relation._is_relation: type(arg) == Relation, else the call raises.
_is_relation(arg) == arg.type = "Relation"

\* Relation._kure_error: reads the manager's error record and raises it.  With
\* _context already None the read itself fails with AttributeError.
_kure_error(c) == IF context[c] = "ptr" THEN KureError ELSE "AttributeError"

\* Relation.set_bit(row, col, yesno)
set_bit(o, row, col, yesno) ==
    LET c == objs[o].context IN
    /\ calls' = <<Call("kure_set_bit_si", NULL, <<objs[o].rel>>)>>
    /\ \E success \in KureSetBitSuccess(kure, objs[o].rel, row, col) :
           /\ kure' = IF success THEN KureSetBit(kure, objs[o].rel, row, col, yesno)
                      ELSE kure
           /\ op' = Op("set_bit", IF success THEN "none" ELSE _kure_error(c))
    /\ UNCHANGED <<context, ref, relations, objs, manager>>

\* A copy that wraps the duplicate without registering it in the context.
copyUntracked(o) ==
    LET c == objs[o].context
        src == objs[o].rel
        h == NewHandle IN
    /\ CanAllocate
    /\ kure' = KureCopy(kure, h, src)
    /\ objs' = objs @@ (h :> RelationInit(c, ref[c], h, kure[src].rows, kure[src].cols, TRUE))
    /\ calls' = <<Call("kure_rel_new_copy", NULL, <<src>>)>> \o RelationInitCalls(h)
    /\ op' = Op("copy", "none")
    /\ UNCHANGED <<context, ref, relations, manager>>

\* Relation.copy()
copy(o) ==
    LET c == objs[o].context
        src == objs[o].rel
        h == NewHandle IN
    \E success \in KureCopySuccess(kure, src) :
        IF success
        THEN /\ CanAllocate
             /\ kure' = KureCopy(kure, h, src)
             /\ _add(c, h)
             /\ objs' = objs @@ (h :> RelationInit(c, ref[c] + 1, h, kure[src].rows,
                                                   kure[src].cols, TRUE))
             /\ calls' = <<Call("kure_rel_new_copy", NULL, <<src>>)>> \o RelationInitCalls(h)
             /\ op' = Op("copy", "none")
             /\ UNCHANGED <<context, manager>>
        ELSE /\ calls' = <<Call("kure_rel_new_copy", NULL, <<src>>)>>
             /\ op' = Op("copy", _kure_error(c))
             /\ UNCHANGED <<context, ref, relations, objs, kure, manager>>

\* An element of the `bits` argument of set_bits: a (row, col) pair, a tuple
\* of one entry (unpacking raises ValueError), or an int (unpacking raises
\* TypeError).
BitElements ==
    {[kind |-> "pair", row |-> 0, col |-> c] : c \in {0, 1, 2}}
    \cup {[kind |-> "short", row |-> 0, col |-> 0], [kind |-> "int", row |-> 0, col |-> 0]}

\* The `bits` arguments: the lists of at most two elements.
BitLists == {<<>>} \cup {<<a>> : a \in BitElements} \cup (BitElements \X BitElements)

\* The loop of set_bits from engine state k with the calls cs made so far:
\* the outcomes [kure, calls, raised] it can end in.  An element that does not
\* unpack ends it with the invalid-pair error before set_bit is called; a
\* set_bit the engine rejects ends it with _kure_error().
RECURSIVE ForRowColInBits(_, _, _, _, _)
ForRowColInBits(k, cs, bits, o, yesno) ==
    IF bits = <<>> THEN {[kure |-> k, calls |-> cs, raised |-> "none"]}
    ELSE LET b == Head(bits)
             h == objs[o].rel
             made == Append(cs, Call("kure_set_bit_si", NULL, <<h>>)) IN
         IF b.kind # "pair" THEN {[kure |-> k, calls |-> cs, raised |-> InvalidBitPair]}
         ELSE UNION {IF success
                     THEN ForRowColInBits(KureSetBit(k, h, b.row, b.col, yesno), made,
                                          Tail(bits), o, yesno)
                     ELSE {[kure |-> k, calls |-> made,
                            raised |-> _kure_error(objs[o].context)]}
                     : success \in KureSetBitSuccess(k, h, b.row, b.col)}

\* A set_bits that skips an element the engine rejects and goes on.
set_bitsSkipping(o, bits, yesno) ==
    LET ok == SelectSeq(bits, LAMBDA b : b.kind # "pair" \/
                  TRUE \in KureSetBitSuccess(kure, objs[o].rel, b.row, b.col)) IN
    \E end \in ForRowColInBits(kure, <<>>, ok, o, yesno) :
        /\ kure' = end.kure
        /\ calls' = end.calls
        /\ op' = [Op("set_bits", end.raised) EXCEPT !.args = <<o, bits, yesno>>]
        /\ UNCHANGED <<context, ref, relations, objs, manager>>

\* Relation.set_bits(bits, yesno)
set_bits(o, bits, yesno) ==
    \E end \in ForRowColInBits(kure, <<>>, bits, o, yesno) :
        /\ kure' = end.kure
        /\ calls' = end.calls
        /\ op' = [Op("set_bits", end.raised) EXCEPT !.args = <<o, bits, yesno>>]
        /\ UNCHANGED <<context, ref, relations, objs, manager>>

\* Relation.clear()
clear(o) ==
    LET c == objs[o].context
        rels == <<objs[o].rel>> IN
    /\ calls' = <<Call("kure_O", NULL, rels)>>
    /\ \E success \in KureSuccess(kure, "kure_O", rels) :
           /\ kure' = IF success THEN KureWrite(kure, "kure_O", rels) ELSE kure
           /\ op' = Op("clear", IF success THEN "none" ELSE _kure_error(c))
    /\ UNCHANGED <<context, ref, relations, objs, manager>>

\* A probability argument of random: a Python value with its type, the value
\* in tenths.
ProbArgs ==
    {[type |-> "float", val |-> v] : v \in {0, 5, 20}} \cup {[type |-> "int", val |-> 10]}

\* Relation.random, line 292: isinstance(prob, float) and prob > 0.0
isValidProb(prob) == prob.type = "float" /\ prob.val > 0

\* Relation.random(prob): clear(), then the validation of prob, then the fill.
\* The wrapper's result `success` is the c_char the engine returned, tested
\* with `not`.
random(o, prob) ==
    LET c == objs[o].context
        h == objs[o].rel
        first == Call("kure_O", NULL, <<h>>)
        second == Call("kure_random_simple", NULL, <<h>>) IN
    /\ \E cleared \in KureSuccess(kure, "kure_O", <<h>>) :
        IF ~cleared
        THEN /\ calls' = <<first>>
             /\ kure' = kure
             /\ op' = Op("random", _kure_error(c))
        ELSE IF ~isValidProb(prob)
        THEN /\ calls' = <<first>>
             /\ kure' = KureWrite(kure, "kure_O", <<h>>)
             /\ op' = Op("random", InvalidArgument)
        ELSE /\ calls' = <<first, second>>
             /\ \E success \in KureRandomSuccess(kure, h) :
                 /\ kure' \in IF success THEN KureRandom(KureWrite(kure, "kure_O", <<h>>), h)
                               ELSE {KureWrite(kure, "kure_O", <<h>>)}
                 /\ op' = IF PyNot(c_char(success)) THEN Op("random", _kure_error(c))
                          ELSE [Op("random", "none") EXCEPT !.failed = ~success]
    /\ UNCHANGED <<context, ref, relations, objs, manager>>

\* A loop of vector_next that goes on after a failing call and raises at the
\* end.
RECURSIVE ForIInRangeToTheEnd(_, _, _, _)
ForIInRangeToTheEnd(k, cs, o, increment) ==
    IF increment <= 0 THEN {[kure |-> k, calls |-> cs, raised |-> "none"]}
    ELSE LET h == objs[o].rel
             made == Append(cs, Call("kure_vec_next", NULL, <<h, h>>)) IN
         UNION {{IF success THEN end
                 ELSE [end EXCEPT !.raised = _kure_error(objs[o].context)]
                 : end \in ForIInRangeToTheEnd(KureVecNext(k, h), made, o, increment - 1)}
                : success \in KureVecNextSuccess(k, h)}

\* The loop of vector_next from engine state k with the calls cs made so far:
\* the outcomes [kure, calls, raised] it can end in.  The first failing call
\* ends it with _kure_error().
RECURSIVE ForIInRange(_, _, _, _)
ForIInRange(k, cs, o, increment) ==
    IF increment <= 0 THEN {[kure |-> k, calls |-> cs, raised |-> "none"]}
    ELSE LET h == objs[o].rel
             made == Append(cs, Call("kure_vec_next", NULL, <<h, h>>)) IN
         UNION {IF success
                THEN ForIInRange(KureVecNext(k, h), made, o, increment - 1)
                ELSE {[kure |-> k, calls |-> made, raised |-> _kure_error(objs[o].context)]}
                : success \in KureVecNextSuccess(k, h)}

\* Relation.vector_next(increment)
vector_next(o, increment) ==
    \E end \in ForIInRange(kure, <<>>, o, increment) :
        /\ kure' = end.kure
        /\ calls' = end.calls
        /\ op' = [Op("vector_next", end.raised) EXCEPT !.args = <<o, increment>>]
        /\ UNCHANGED <<context, ref, relations, objs, manager>>

\* The outcomes of Relation.vector(vector=index) for an int argument: the begin
\* call with the dimensions the object holds, then vector_next(index).
VectorOutcomes(k, o, index) ==
    LET h == objs[o].rel
        begin == <<Call("kure_vec_begin_full_si", NULL, <<h>>)>> IN
    UNION {IF success
           THEN ForIInRange(KureVecBegin(k, h, objs[o].rows, objs[o].cols), begin, o, index)
           ELSE {[kure |-> k, calls |-> begin, raised |-> _kure_error(objs[o].context)]}
           : success \in KureVecBeginSuccess(k, h, objs[o].rows, objs[o].cols)}

\* Relation.vector(vector=index)
vector(o, index) ==
    IF index.type # "int"
    THEN /\ calls' = <<>>
         /\ op' = [Op("vector", InvalidVector) EXCEPT !.args = <<o, index>>]
         /\ UNCHANGED <<context, ref, relations, objs, kure, manager>>
    ELSE \E end \in VectorOutcomes(kure, o, index.val) :
         /\ kure' = end.kure
         /\ calls' = end.calls
         /\ op' = [Op("vector", end.raised) EXCEPT !.args = <<o, index>>]
         /\ UNCHANGED <<context, ref, relations, objs, manager>>

\* The shared body of the producing operations: result = self.context.new(
\* self.rows, self.cols), the engine call writing into result.rel, then either
\* return result or _kure_error().  `args` are the handles passed after
\* result.rel.  When the call raises, only the frame of the raising call still
\* refers to the result object (held = FALSE).
Produce(name, other, fn, o, args) ==
    LET c == objs[o].context
        h == NewHandle
        rels == <<h>> \o args
        k == KureAlloc(kure, h, c, objs[o].rows, objs[o].cols) IN
    /\ context[c] = "ptr"
    /\ CanAllocate
    /\ _add(c, h)
    /\ calls' = NewCalls(c, h) \o <<Call(fn, NULL, rels)>>
    /\ \E success \in KureSuccess(k, fn, rels) :
        /\ kure' = IF success THEN KureWrite(k, fn, rels) ELSE k
        /\ objs' = objs @@ (h :> RelationInit(c, ref[c] + 1, h, objs[o].rows,
                                              objs[o].cols, success))
        /\ op' = BinaryOp(name, other, IF success THEN "none" ELSE _kure_error(c))
    /\ UNCHANGED <<context, manager>>

\* A binary operation called with something that is not a Relation.
RaiseTypeMismatch(name, other, o) ==
    /\ op' = BinaryOp(name, other, TypeMismatch)
    /\ calls' = <<>>
    /\ UNCHANGED <<context, ref, relations, objs, kure, manager>>

\* Relation.empty()
empty(o) == Produce("empty", NoOther, "kure_O", o, <<>>)

\* Relation.universal()
universal(o) == Produce("universal", NoOther, "kure_L", o, <<>>)

\* Relation.identity()
identity(o) == Produce("identity", NoOther, "kure_I", o, <<>>)

\* Relation.transpose()
transpose(o) == Produce("transpose", NoOther, "kure_transpose", o, <<objs[o].rel>>)

\* Relation.complement()
complement(o) == Produce("complement", NoOther, "kure_complement", o, <<objs[o].rel>>)

\* Relation.meet(other)
meet(o, other) ==
    IF ~_is_relation(other) THEN RaiseTypeMismatch("meet", other, o)
    ELSE Produce("meet", other, "kure_and", o, <<objs[o].rel, objs[other.val].rel>>)

\* Relation.join(other)
join(o, other) ==
    IF ~_is_relation(other) THEN RaiseTypeMismatch("join", other, o)
    ELSE Produce("join", other, "kure_or", o, <<objs[o].rel, objs[other.val].rel>>)

\* Relation.composition(other)
composition(o, other) ==
    IF ~_is_relation(other) THEN RaiseTypeMismatch("composition", other, o)
    ELSE Produce("composition", other, "kure_mult", o, <<objs[o].rel, objs[other.val].rel>>)

\* A comparison that answers False when the engine reports failure.
CompareDefault(name, other, fn, o, rels) ==
    /\ calls' = <<Call(fn, NULL, rels)>>
    /\ \E psuccess \in KureSuccess(kure, fn, rels), result \in KureResult(kure, fn, rels) :
           op' = Returned(name, other, psuccess /\ result)
    /\ UNCHANGED <<context, ref, relations, objs, kure, manager>>

\* The shared body of equals, isSuperset and isSubset: one engine call with a
\* success flag; the boolean the engine answered is returned when the flag is
\* set, _kure_error() raises otherwise.
Compare(name, other, fn, o, rels) ==
    LET c == objs[o].context IN
    /\ calls' = <<Call(fn, NULL, rels)>>
    /\ \E psuccess \in KureSuccess(kure, fn, rels), result \in KureResult(kure, fn, rels) :
           op' = IF psuccess THEN Returned(name, other, result)
                 ELSE BinaryOp(name, other, _kure_error(c))
    /\ UNCHANGED <<context, ref, relations, objs, kure, manager>>

\* Relation.equals(other)
equals(o, other) ==
    IF ~_is_relation(other) THEN RaiseTypeMismatch("equals", other, o)
    ELSE Compare("equals", other, "kure_equals", o, <<objs[o].rel, objs[other.val].rel>>)

\* Relation.isSuperset(other)
isSuperset(o, other) ==
    IF ~_is_relation(other) THEN RaiseTypeMismatch("isSuperset", other, o)
    ELSE Compare("isSuperset", other, "kure_includes", o, <<objs[other.val].rel, objs[o].rel>>)

\* An isSubset that asks whether other is included in self.
isSubsetReversed(o, other) ==
    IF ~_is_relation(other) THEN RaiseTypeMismatch("isSubset", other, o)
    ELSE Compare("isSubset", other, "kure_includes", o, <<objs[other.val].rel, objs[o].rel>>)

\* Relation.isSubset(other)
isSubset(o, other) ==
    IF ~_is_relation(other) THEN RaiseTypeMismatch("isSubset", other, o)
    ELSE Compare("isSubset", other, "kure_includes", o, <<objs[o].rel, objs[other.val].rel>>)

\* A strict comparison that returns the inclusion test alone.
CompareStrictInclusionOnly(name, other, o, incl, eq) ==
    LET c == objs[o].context
        first == Call("kure_includes", NULL, incl) IN
    /\ calls' = <<first>>
    /\ \E psuccess \in KureSuccess(kure, "kure_includes", incl),
          result \in KureResult(kure, "kure_includes", incl) :
           op' = IF psuccess THEN Returned(name, other, result)
                 ELSE BinaryOp(name, other, _kure_error(c))
    /\ UNCHANGED <<context, ref, relations, objs, kure, manager>>

\* The shared body of isStrictSuperset and isStrictSubset: the inclusion test,
\* and, only when it answered True, the equality test (`and` short-circuits),
\* whose answer is returned negated.
CompareStrict(name, other, o, incl, eq) ==
    LET c == objs[o].context
        first == Call("kure_includes", NULL, incl)
        second == Call("kure_equals", NULL, eq) IN
    /\ \E psuccess \in KureSuccess(kure, "kure_includes", incl),
          result \in KureResult(kure, "kure_includes", incl) :
        IF ~psuccess
        THEN calls' = <<first>> /\ op' = BinaryOp(name, other, _kure_error(c))
        ELSE IF ~result
        THEN calls' = <<first>> /\ op' = Returned(name, other, FALSE)
        ELSE /\ calls' = <<first, second>>
             /\ \E psuccess2 \in KureSuccess(kure, "kure_equals", eq),
                   equal \in KureResult(kure, "kure_equals", eq) :
                    op' = IF psuccess2 THEN Returned(name, other, ~equal)
                          ELSE BinaryOp(name, other, _kure_error(c))
    /\ UNCHANGED <<context, ref, relations, objs, kure, manager>>

\* Relation.isStrictSuperset(other)
isStrictSuperset(o, other) ==
    IF ~_is_relation(other) THEN RaiseTypeMismatch("isStrictSuperset", other, o)
    ELSE CompareStrict("isStrictSuperset", other, o, <<objs[other.val].rel, objs[o].rel>>,
                       <<objs[o].rel, objs[other.val].rel>>)

\* Relation.isStrictSubset(other)
isStrictSubset(o, other) ==
    IF ~_is_relation(other) THEN RaiseTypeMismatch("isStrictSubset", other, o)
    ELSE CompareStrict("isStrictSubset", other, o, <<objs[o].rel, objs[other.val].rel>>,
                       <<objs[o].rel, objs[other.val].rel>>)

\* The (row, col) pairs set_bit is called with.
BitArgs == {<<0, 0>>, <<1, 1>>}

----------------------------------------------------------------------------
(* Specifications *)

\* Spec: the lifecycle of one context.  Every operation that registers or
\* destroys a handle, and set_bit as the operation that only uses one.
LifecycleCtx == {1}

Next ==
    \/ \E c \in LifecycleCtx, rows \in DimArgs, cols \in DimArgs : new(c, rows, cols)
    \/ \E c \in LifecycleCtx : \E toDelete \in DeleteArgs : delete(c, toDelete)
    \/ \E c \in LifecycleCtx : clean(c)
    \/ \E c \in LifecycleCtx : PyrelContext__del__(c)
    \/ \E o \in DOMAIN objs : Relation__del__(o)
    \/ \E o \in Held : \E bit \in BitArgs : set_bit(o, bit[1], bit[2], TRUE)
    \/ \E o \in Held : copy(o)
    \/ \E o \in Held : empty(o)
    \/ \E o \in Held : universal(o)
    \/ \E o \in Held : identity(o)
    \/ \E o \in Held : transpose(o)
    \/ \E o \in Held : complement(o)
    \/ \E o \in Held : \E other \in OperandArgs : meet(o, other)
    \/ \E o \in Held : \E other \in OperandArgs : join(o, other)
    \/ \E o \in Held : \E other \in OperandArgs : composition(o, other)

Spec == Init /\ [][Next]_vars

\* SpecBinary: two contexts, one-row relations minted in either, and the eight
\* binary operations on any pair of them or on a non-Relation argument.
\* (Operands of different dimensions are the subject of Spec.)
NextBinary ==
    \/ \E c \in Ctx, cols \in CountArgs : new(c, OneRow, cols)
    \/ \E o \in Held : \E other \in OperandArgs : meet(o, other)
    \/ \E o \in Held : \E other \in OperandArgs : join(o, other)
    \/ \E o \in Held : \E other \in OperandArgs : composition(o, other)
    \/ \E o \in Held : \E other \in OperandArgs : equals(o, other)
    \/ \E o \in Held : \E other \in OperandArgs : isSuperset(o, other)
    \/ \E o \in Held : \E other \in OperandArgs : isSubset(o, other)
    \/ \E o \in Held : \E other \in OperandArgs : isStrictSuperset(o, other)
    \/ \E o \in Held : \E other \in OperandArgs : isStrictSubset(o, other)

SpecBinary == Init /\ [][NextBinary]_vars

\* The column counts of the relations of SpecDims: a square and a non-square
\* one-row shape.
ShapeArgs == {[type |-> "int", val |-> v] : v \in {1, 2}}

\* SpecDims: one context, 1-by-1 and 1-by-2 relations, the two producing
\* operations whose result has other dimensions than the operand, and the
\* comparisons.
NextDims ==
    \/ \E c \in LifecycleCtx, cols \in ShapeArgs : new(c, OneRow, cols)
    \/ \E o \in Held : transpose(o)
    \/ \E o \in Held : \E other \in OperandArgs : composition(o, other)
    \/ \E o \in Held : \E other \in OperandArgs : equals(o, other)
    \/ \E o \in Held : \E other \in OperandArgs : isSuperset(o, other)
    \/ \E o \in Held : \E other \in OperandArgs : isSubset(o, other)
    \/ \E o \in Held : \E other \in OperandArgs : isStrictSuperset(o, other)
    \/ \E o \in Held : \E other \in OperandArgs : isStrictSubset(o, other)

SpecDims == Init /\ [][NextDims]_vars

\* SpecBits: one context, 1-by-1 relations whose bit is set and cleared,
\* copies of them, deletes, and the comparisons.
NextBits ==
    \/ \E c \in LifecycleCtx : CanAllocateBits /\ new(c, OneRow, OneRow)
    \/ \E o \in Held : \E yesno \in BOOLEAN : set_bit(o, 0, 0, yesno)
    \/ \E o \in Held : CanAllocateBits /\ copy(o)
    \/ \E c \in LifecycleCtx : \E toDelete \in DeleteArgs : delete(c, toDelete)
    \/ \E o \in Held : \E other \in OperandArgs : equals(o, other)
    \/ \E o \in Held : \E other \in OperandArgs : isSuperset(o, other)
    \/ \E o \in Held : \E other \in OperandArgs : isSubset(o, other)
    \/ \E o \in Held : \E other \in OperandArgs : isStrictSuperset(o, other)
    \/ \E o \in Held : \E other \in OperandArgs : isStrictSubset(o, other)

SpecBits == Init /\ [][NextBits]_vars

\* The column count 2.
TwoCols == [type |-> "int", val |-> 2]

\* SpecWrite: one context, 1-by-2 relations, and the operations that write
\* bits into a relation in place.
NextWrite ==
    \/ \E c \in LifecycleCtx : CanAllocateBits /\ new(c, OneRow, TwoCols)
    \/ \E o \in Held : \E bits \in BitLists, yesno \in BOOLEAN : set_bits(o, bits, yesno)
    \/ \E o \in Held : clear(o)
    \/ \E o \in Held : \E prob \in ProbArgs : random(o, prob)

SpecWrite == Init /\ [][NextWrite]_vars

\* The row count 2.
TwoRows == [type |-> "int", val |-> 2]

\* The `vector` arguments of vector, and the `increment` arguments of
\* vector_next.
VectorArgs ==
    {[type |-> "int", val |-> v] : v \in {-1, 0, 1, 2}} \cup {[type |-> "float", val |-> 1]}

IncrementArgs == {-1, 0, 1, 2}

\* SpecVector: one context, 2-by-1 relations with any bits set, and the
\* enumeration of their vectors.
NextVector ==
    \/ \E c \in LifecycleCtx : CanAllocateBits /\ new(c, TwoRows, OneRow)
    \/ \E o \in Held : \E row \in {0, 1}, yesno \in BOOLEAN : set_bit(o, row, 0, yesno)
    \/ \E o \in Held : \E n \in VectorArgs : vector(o, n)
    \/ \E o \in Held : \E k \in IncrementArgs : vector_next(o, k)

SpecVector == Init /\ [][NextVector]_vars

----------------------------------------------------------------------------
(* Properties of the lifecycle (checked under Spec) *)

\* The state an operation that fails locally must leave alone.
program == <<context, ref, relations, objs, kure, manager>>

DestroyCall(h) == Call("kure_rel_destroy", NULL, <<h>>)

\* C1: every engine relation handle registered in a context is passed to
\* kure_rel_destroy at most once, whatever sequence of new, copy, producing
\* operations, delete, clean, Relation.__del__ and teardown has run.
C1_DestroyedAtMostOnce == \A h \in DOMAIN kure : kure[h].destroys <= 1

\* A Relation object is dropped after its handle was already destroyed: its
\* __del__ asked the context to delete it again and no engine call followed.
C1_Witness ==
    /\ op.name = "Relation.__del__"
    /\ calls = <<>>
    /\ \E h \in DOMAIN kure : h \notin DOMAIN objs /\ kure[h].destroys = 1

\* C2: once a relation's handle has been destroyed, no later operation on that
\* Relation (or with it as the other operand) passes the handle to the engine:
\* every handle in an engine call other than the destroy itself is alive.
C2_NoUseAfterDestroy ==
    \A i \in DOMAIN calls :
        calls[i].fn # "kure_rel_destroy" =>
            \A j \in DOMAIN calls[i].rels : kure[calls[i].rels[j]].alive

\* C3: teardown passes every handle tracked at that moment to
\* kure_rel_destroy before it passes the manager to kure_context_destroy, which
\* is its last engine call, and the mapping is empty afterwards.
C3_TeardownOrder ==
    [][op'.name = "PyrelContext.__del__" => \A c \in LifecycleCtx :
        PyrelContext__del__(c) =>
            LET n == Len(calls') IN
            /\ n >= 1
            /\ calls'[n].fn = "kure_context_destroy"
            /\ \A i \in 1..(n - 1) : calls'[i].fn = "kure_rel_destroy"
            /\ \A h \in Range(relations[c]) :
                   \E i \in 1..(n - 1) : calls'[i] = DestroyCall(h)
            /\ relations'[c] = EmptyMap]_vars

\* A teardown of a context that tracked two relations.
C3_Witness ==
    /\ op.name = "PyrelContext.__del__"
    /\ Len(calls) = 3
    /\ calls[3] = Call("kure_context_destroy", 1, <<>>)

\* C4: delete takes a Relation or a bare reference number.  A tracked number:
\* its handle is destroyed and exactly its entry leaves the mapping.  An
\* untracked number: no engine call and no change of state.
C4_Delete ==
    [][op'.name = "delete" => \A c \in LifecycleCtx : \A toDelete \in DeleteArgs :
        delete(c, toDelete) =>
            LET key == IF toDelete.type = "Relation"
                       THEN objs[toDelete.val].ref ELSE toDelete.val
                m == relations[c] IN
            IF key \in DOMAIN m
            THEN /\ calls' = <<DestroyCall(m[key])>>
                 /\ ~kure'[m[key]].alive
                 /\ DOMAIN relations'[c] = DOMAIN m \ {key}
                 /\ Cardinality(DOMAIN relations'[c]) = Cardinality(DOMAIN m) - 1
                 /\ \A k \in DOMAIN relations'[c] :
                        relations'[c][k] = m[k] /\ kure'[m[k]] = kure[m[k]]
                 /\ ref' = ref
            ELSE calls' = <<>> /\ UNCHANGED program]_vars

\* A delete of a reference number that had been deleted before.
C4_Witness ==
    /\ op.name = "delete"
    /\ calls = <<>>
    /\ \E h \in DOMAIN kure : h \in DOMAIN objs /\ ~kure[h].alive
    /\ relations[1] # EmptyMap

\* C5: clean and teardown leave the mapping empty with every handle tracked
\* before destroyed; a reference number issued earlier and no longer tracked
\* never returns to the mapping, and a delete of it (by number or by Relation)
\* makes no engine call and changes nothing.
C5_CleanEmpties ==
    [][/\ op'.name \in {"clean", "PyrelContext.__del__"} =>
           \A c \in LifecycleCtx :
               (clean(c) \/ PyrelContext__del__(c)) =>
                   /\ relations'[c] = EmptyMap
                   /\ \A h \in Range(relations[c]) :
                          /\ ~kure'[h].alive
                          /\ kure'[h].destroys = kure[h].destroys + 1
                          /\ \E i \in DOMAIN calls' : calls'[i] = DestroyCall(h)
       /\ \A c \in LifecycleCtx :
              \A key \in (1..ref[c]) \ DOMAIN relations[c] :
                  key \notin DOMAIN relations'[c]
       /\ op'.name = "delete" =>
              \A c \in LifecycleCtx : \A toDelete \in DeleteArgs :
                  (/\ DeleteKey(toDelete) \in (1..ref[c]) \ DOMAIN relations[c]
                   /\ delete(c, toDelete)) =>
                      (calls' = <<>> /\ UNCHANGED program)]_vars

\* A clean of a context that tracked two relations.
C5_Witness ==
    /\ op.name = "clean"
    /\ Len(calls) = 2
    /\ relations[1] = EmptyMap
    /\ \A h \in {1, 2} : h \in DOMAIN objs /\ kure[h].destroys = 1

\* C6: a teardown of a context that was already torn down makes no engine call
\* and changes no state.
C6_TeardownIdempotent ==
    [][op'.name = "PyrelContext.__del__" => \A c \in LifecycleCtx :
        (context[c] = "None" /\ PyrelContext__del__(c)) =>
            (calls' = <<>> /\ UNCHANGED program)]_vars

\* C7: new with a (rows, cols) pair that is not both zero or both positive
\* (negative or non-integer values included) raises the invalid-dimension
\* error with no engine call, the counter and the mapping unchanged; a pair
\* that is both zero or both positive is accepted.
C7_NewValidatesDimension ==
    [][op'.name = "new" =>
        /\ \A c \in LifecycleCtx : \A rows \in DimArgs, cols \in DimArgs :
               \/ (op'.raised = "none") =
                      (/\ rows.type = "int" /\ cols.type = "int"
                       /\ \/ (rows.val = 0 /\ cols.val = 0)
                          \/ (rows.val > 0 /\ cols.val > 0))
               \/ ~new(c, rows, cols)
        /\ op'.raised \in {"none", InvalidDimension}
        /\ op'.raised = InvalidDimension =>
               /\ calls' = <<>>
               /\ ref' = ref
               /\ relations' = relations
               /\ kure' = kure
        /\ op'.raised = "none" =>
               \E c \in LifecycleCtx :
                   /\ ref'[c] = ref[c] + 1
                   /\ ref'[c] \in DOMAIN relations'[c]]_vars

\* A rejected new in a context that already tracks a relation.
C7_Witness ==
    /\ op = Op("new", InvalidDimension)
    /\ calls = <<>>
    /\ relations[1] # EmptyMap

----------------------------------------------------------------------------
(* Properties of the binary operations (checked under SpecBinary) *)

\* Some binary operation was called on Relation o with argument `other`.
BinaryOperation(o, other) ==
    \/ meet(o, other)
    \/ join(o, other)
    \/ composition(o, other)
    \/ equals(o, other)
    \/ isSubset(o, other)
    \/ isSuperset(o, other)
    \/ isStrictSubset(o, other)
    \/ isStrictSuperset(o, other)

BinaryNames ==
    {"meet", "join", "composition", "equals", "isSubset", "isSuperset",
     "isStrictSubset", "isStrictSuperset"}

\* C8: a binary operation whose other operand is a Relation of a different
\* context is rejected with a context-mismatch error before any engine call.
C8_ContextMismatchRejected ==
    [][op'.name \in BinaryNames =>
        \A o \in Held : \A other \in OperandArgs :
            (/\ other.type = "Relation"
             /\ objs[other.val].context # objs[o].context
             /\ BinaryOperation(o, other)) =>
                (op'.raised = "ContextMismatch" /\ calls' = <<>>)]_vars

\* C9: a binary operation called with an argument that is not a Relation
\* raises the type-mismatch error before a result is minted and before any
\* engine call: the reference counter and the mapping are unchanged.
C9_TypeMismatchFirst ==
    [][(op'.name \in BinaryNames /\ op'.other # "Relation") =>
        /\ op'.raised = TypeMismatch
        /\ calls' = <<>>
        /\ ref' = ref
        /\ relations' = relations
        /\ kure' = kure
        /\ objs' = objs]_vars

\* A composition with a non-Relation argument was rejected while the context
\* tracks a relation.
C9_Witness ==
    /\ op = BinaryOp("composition", [type |-> "int", val |-> 1], TypeMismatch)
    /\ calls = <<>>
    /\ relations[1] # EmptyMap

\* C10: meet or join of operands that differ in rows or cols, and composition
\* where the operand's cols differ from the other's rows, fail without any
\* engine call: no result handle, reference counter and mapping unchanged.
C10_DimensionCheckedFirst ==
    [][op'.name \in {"meet", "join", "composition"} =>
        \A o \in Held : \A other \in OperandArgs :
            (/\ other.type = "Relation"
             /\ objs[other.val].context = objs[o].context
             /\ \/ /\ meet(o, other) \/ join(o, other)
                   /\ \/ objs[o].rows # objs[other.val].rows
                      \/ objs[o].cols # objs[other.val].cols
                \/ /\ composition(o, other)
                   /\ objs[o].cols # objs[other.val].rows) =>
                /\ op'.raised # "none"
                /\ calls' = <<>>
                /\ ref' = ref
                /\ relations' = relations
                /\ kure' = kure]_vars

----------------------------------------------------------------------------
(* Properties of dimensions and comparisons (checked under SpecDims) *)

\* C11: the Relation a producing operation returns reports the dimensions of
\* the operation's rule: transpose of an r-by-c relation returns (c, r), and
\* A.composition(B) returns (A.rows, B.cols).
C11_ProducedDimensions ==
    [][(op'.name \in {"transpose", "composition"} /\ op'.raised = "none") =>
        LET call == calls'[Len(calls')]
            result == objs'[call.rels[1]]
            A == objs[call.rels[2]] IN
        IF op'.name = "transpose"
        THEN result.rows = A.cols /\ result.cols = A.rows
        ELSE result.rows = A.rows /\ result.cols = objs[call.rels[3]].cols]_vars

\* The comparisons.
CompareNames == {"equals", "isSubset", "isSuperset", "isStrictSubset", "isStrictSuperset"}

\* C12: a comparison whose engine call reports failure through the success
\* flag (operands of different dimension) raises the engine error; it returns
\* no boolean.
C12_CompareFailureRaises ==
    [][(/\ op'.name \in CompareNames
        /\ op'.other = "Relation"
        /\ KureSuccess(kure, calls'[Len(calls')].fn, calls'[Len(calls')].rels) = {FALSE}) =>
            /\ op'.raised = KureError
            /\ op'.returned = "None"]_vars

\* A strict comparison of a 1-by-1 with a 1-by-2 relation raised after its
\* inclusion call.
C12_Witness ==
    /\ op.name = "isStrictSuperset"
    /\ op.raised = KureError
    /\ Len(calls) = 1
    /\ \E a, b \in DOMAIN kure : /\ kure[a].rows = 1 /\ kure[a].cols = 1
                                   /\ kure[b].rows = 1 /\ kure[b].cols = 2
                                   /\ calls[1] = Call("kure_includes", NULL, <<b, a>>)

\* The bits a comparison was asked about: those of its receiver and of its
\* other operand.
BitsOf(o) == kure[objs[o].rel].bits

Comparable(o, other) ==
    /\ other.type = "Relation"
    /\ Usable(kure, objs[o].rel)
    /\ Usable(kure, objs[other.val].rel)
    /\ SameDim(kure, objs[o].rel, objs[other.val].rel)

----------------------------------------------------------------------------
(* Properties of the bit contents (checked under SpecBits) *)

C15_Copy ==
    [][/\ (op'.name = "copy" /\ op'.raised = "none") =>
           LET src == calls'[1].rels[1]
               h == NewHandle
               c == objs[src].context IN
           /\ h \notin DOMAIN kure
           /\ ref'[c] = ref[c] + 1
           /\ relations'[c] = relations[c] @@ (ref'[c] :> h)
           /\ objs'[h].context = c /\ objs'[h].ref = ref'[c] /\ objs'[h].rel = h
           /\ objs'[h].rows = kure[src].rows /\ objs'[h].cols = kure[src].cols
           /\ kure'[h].rows = kure[src].rows /\ kure'[h].cols = kure[src].cols
           /\ kure'[h].bits = kure[src].bits
           /\ \A g \in DOMAIN kure : kure'[g] = kure[g]
       /\ (op'.name = "copy" /\ op'.raised # "none") =>
           /\ op'.raised = KureError
           /\ UNCHANGED <<ref, relations, objs, kure>>
       /\ op'.name \in {"set_bit", "delete"} =>
           \A g \in DOMAIN kure :
               kure'[g] # kure[g] => (calls' # <<>> /\ calls'[1].rels = <<g>>)]_vars

\* The original of a copy with its bit set was deleted: the copy is alive and
\* still holds the bit.
C15_Witness ==
    /\ op.name = "delete"
    /\ calls = <<Call("kure_rel_destroy", NULL, <<1>>)>>
    /\ DOMAIN kure = {1, 2}
    /\ kure[2].alive
    /\ kure[2].bits = {<<0, 0>>}

----------------------------------------------------------------------------
(* Properties of the operations that write in place (checked under SpecWrite) *)

\* Does the element of a set_bits argument fail: it does not unpack into a
\* pair, or its coordinate lies outside the relation.
Malformed(b) == b.kind # "pair"

Rejected(o, b) ==
    b.row < 0 \/ b.row >= objs[o].rows \/ b.col < 0 \/ b.col >= objs[o].cols

\* The position of the first failing element (Len(bits) + 1 when none fails).
FirstFailing(o, bits) ==
    CHOOSE i \in 1..(Len(bits) + 1) :
        /\ (i = Len(bits) + 1 \/ Malformed(bits[i]) \/ Rejected(o, bits[i]))
        /\ \A j \in 1..(i - 1) : ~Malformed(bits[j]) /\ ~Rejected(o, bits[j])

\* C16: set_bits applies set_bit to the pairs in order and stops at the first
\* failing element: a malformed element raises the invalid-pair error with no
\* engine call for it, a coordinate the engine rejects raises the engine
\* error; exactly the pairs before the failing element have been applied.
C16_SetBitsStopsAtFirstFailure ==
    [][op'.name = "set_bits" =>
        LET o == op'.args[1]
            bits == op'.args[2]
            yesno == op'.args[3]
            h == objs[o].rel
            i == FirstFailing(o, bits)
            coords == {<<bits[j].row, bits[j].col>> : j \in 1..(i - 1)} IN
        /\ kure'[h].bits = IF yesno THEN kure[h].bits \cup coords ELSE kure[h].bits \ coords
        /\ \A g \in DOMAIN kure \ {h} : kure'[g] = kure[g]
        /\ \A j \in DOMAIN calls' : calls'[j] = Call("kure_set_bit_si", NULL, <<h>>)
        /\ IF i = Len(bits) + 1
           THEN op'.raised = "none" /\ Len(calls') = Len(bits)
           ELSE IF Malformed(bits[i])
           THEN op'.raised = InvalidBitPair /\ Len(calls') = i - 1
           ELSE op'.raised = KureError /\ Len(calls') = i]_vars

\* set_bits([(0, 1), (0, 2), ...]) on a 1-by-2 relation: the first pair was
\* applied, the second was rejected by the engine.
C16_Witness ==
    /\ op.name = "set_bits"
    /\ op.raised = KureError
    /\ Len(calls) = 2
    /\ Len(op.args[2]) = 2
    /\ op.args[3]
    /\ kure[objs[op.args[1]].rel].bits = {<<0, 1>>}

\* C19: random with a probability that fails the local validation raises the
\* invalid-argument error with no engine call made and the bits unchanged.
C19_RandomValidatesFirst ==
    [][(op'.name = "random" /\ op'.raised = InvalidArgument) =>
        (calls' = <<>> /\ kure' = kure)]_vars

\* C20: random with a valid probability raises the engine error whenever the
\* fill call reports failure.
C20_RandomFailureRaises ==
    (op.name = "random" /\ op.failed) => op.raised = KureError

----------------------------------------------------------------------------
(* Invariants of the mapping and the counter (checked under Spec) *)

\* The engine handles of context c that were allocated and not destroyed.
Undestroyed(c) == {h \in DOMAIN kure : kure[h].context = c /\ kure[h].alive}

\* C17: the handles in the mapping of a context are exactly the handles
\* registered in it and not yet destroyed: no entry is stale, no undestroyed
\* handle is missing, no handle is entered twice.
C17_MappingExact ==
    \A c \in LifecycleCtx :
        /\ Range(relations[c]) = Undestroyed(c)
        /\ \A j, k \in DOMAIN relations[c] : relations[c][j] = relations[c][k] => j = k

\* A copy was registered while an earlier handle of the context is destroyed.
C17_Witness ==
    /\ op.name = "copy"
    /\ op.raised = "none"
    /\ Cardinality(DOMAIN relations[1]) = 2
    /\ \E h \in DOMAIN kure : ~kure[h].alive

\* C18: the reference counter never decreases and no number is issued twice:
\* every entry that joins the mapping has a number above all numbers issued
\* before, also after delete or clean removed earlier entries.
C18_CounterMonotone ==
    [][\A c \in LifecycleCtx :
        /\ ref'[c] >= ref[c]
        /\ \A k \in DOMAIN relations'[c] \ DOMAIN relations[c] :
               k > ref[c] /\ k = ref'[c]
        /\ \A k \in DOMAIN relations[c] \cap DOMAIN relations'[c] :
               relations'[c][k] = relations[c][k]]_vars

\* After clean emptied the mapping, the next relation got number 3.
C18_Witness ==
    /\ op.name = "new"
    /\ op.raised = "none"
    /\ ref[1] = 3
    /\ DOMAIN relations[1] = {3}

----------------------------------------------------------------------------
(* Properties of the vector enumeration (checked under SpecVector) *)

\* vector(0) followed by vector_next(n): the outcomes of the two calls in a
\* row, the second one made when the first returned.
BeginThenNext(o, n) ==
    UNION {IF first.raised # "none" THEN {first}
           ELSE ForIInRange(first.kure, first.calls, o, n)
           : first \in VectorOutcomes(kure, o, 0)}

NextCall(h) == Call("kure_vec_next", NULL, <<h, h>>)

\* C21: vector(n), from any bits and any earlier position, leaves the relation
\* at index n, the state vector(0) followed by vector_next(n) ends in;
\* vector_next(k) makes its next-vector calls one at a time and raises the
\* engine error at the first failing one, with no call after it.
C21_VectorEnumeration ==
    [][/\ (op'.name = "vector" /\ op'.args[2].type = "int") =>
           LET o == op'.args[1]
               n == op'.args[2].val
               h == objs[o].rel
               rows == objs[o].rows IN
           /\ [kure |-> kure', calls |-> calls', raised |-> op'.raised] \in BeginThenNext(o, n)
           /\ \A i \in 2..Len(calls') : calls'[i] = NextCall(h)
           /\ (n >= 0 /\ n < rows) =>
                  /\ op'.raised = "none"
                  /\ Position(kure', h) = {n}
                  /\ Len(calls') = 1 + n
           /\ n >= rows =>
                  /\ op'.raised = KureError
                  /\ Len(calls') = 1 + rows
       /\ op'.name = "vector_next" =>
           LET o == op'.args[1]
               k == IF op'.args[2] > 0 THEN op'.args[2] ELSE 0
               h == objs[o].rel IN
           /\ \A i \in DOMAIN calls' : calls'[i] = NextCall(h)
           /\ Len(calls') <= k
           /\ op'.raised = "none" => Len(calls') = k
           /\ \A p \in Position(kure, h) :
                  IF p + k < objs[o].rows
                  THEN /\ op'.raised = "none"
                       /\ Position(kure', h) = {p + k}
                  ELSE /\ op'.raised = KureError
                       /\ Len(calls') = objs[o].rows - p]_vars

\* vector_next(2) at the last vector: the first call failed, the second was
\* never made.
C21_Witness ==
    /\ op.name = "vector_next"
    /\ op.raised = KureError
    /\ op.args[2] = 2
    /\ calls = <<NextCall(objs[op.args[1]].rel)>>
    /\ Position(kure, objs[op.args[1]].rel) = {1}

====
